---- MODULE Spec2Model ----
(***************************************************************************)
(* Model of the four MPI teaching examples of pre-study-skeleton/examples: *)
(*   mpi/mpi_ring.c                     token ring                         *)
(*   mpi/mpi_pingpong.c                 ping-pong latency loop             *)
(*   mpi_debugging/mpi_deadlock.c       mutual blocking sends              *)
(*   mpi_debugging/mpi_race_condition.c one-sided counter (fence only),    *)
(*                                      and the two fixes its closing      *)
(*                                      comment gives (accumulate, lock)   *)
(* One run executes one program on `size` ranks.  pc[r] is the statement   *)
(* rank r is at; a rank whose pc is "send", "recv" or a collective's label *)
(* has called that MPI routine and is inside it.                           *)
(***************************************************************************)
EXTENDS Integers, Sequences, FiniteSets, TLC

MaxN == 3            \* largest world size explored (mpirun -np)
MaxCap == 1          \* largest eager-buffer capacity of a channel explored
MaxMsgSize == 2      \* largest -DMSG_SIZE explored
iters == 2           \* mpi_pingpong.c:27 has 10000; scaled down
NUM_INCREMENTS == 2  \* mpi_race_condition.c:23 has 1000; scaled down
MaxLockN == 2        \* largest world size explored for the lock fix
MaxLost == 1         \* messages the lossy channel may drop in one run

InitialToken == 42   \* mpi_ring.c:12
JunkValues == {0, 7} \* contents of memory the program has not yet written

P2P == {"ring", "pingpong", "deadlock"}
Counters == {"race", "acc", "lock"}
Programs == P2P \cup Counters
Running == <<>>      \* exitCode of a rank that has not returned from main

VARIABLES
  prog,            \* the program this run executes
  size,            \* MPI_Comm_size
  cap,             \* messages a channel buffers; 0: a send needs its receive
  MSG_SIZE,        \* mpi_pingpong.c compile-time buffer size
  finalizeSync,    \* whether the library's MPI_Finalize waits for all ranks
  pc,              \* rank -> statement
  exitCode,        \* rank -> Running, or <<the value main returned>>
  out,             \* rank -> what the rank printed, in order
  chan,            \* <<src, dst>> -> messages sent and not yet received
  token,           \* mpi_ring.c: rank -> token
  buf,             \* mpi_pingpong.c: rank -> buffer
  i,               \* loop counter of mpi_pingpong.c and mpi_race_condition.c
  send_data,       \* mpi_deadlock.c
  recv_data,       \* mpi_deadlock.c
  shared_counter,  \* mpi_race_condition.c: the int in rank 0's window
  local_value,     \* mpi_race_condition.c: rank -> local copy
  pending,         \* one-sided operations issued and not yet applied
  arrived,         \* rank -> number of collectives the rank has called
  lockHolder,      \* the ranks holding the exclusive window lock: none or one
  sent,            \* history: rank -> <<dst, value>> of its completed sends
  rcvd,            \* history: rank -> <<src, value>> of its completed receives
  visits,          \* history: ranks in the order their receives completed
  lost,            \* history: number of messages the channel dropped
  lostTo           \* history: receivers of the dropped messages

vars == <<prog, size, cap, MSG_SIZE, finalizeSync, pc, exitCode, out, chan, token, buf, i,
          send_data, recv_data, shared_counter, local_value, pending, arrived,
          lockHolder, sent, rcvd, visits, lost, lostTo>>

p2pVars == <<chan, sent, rcvd, visits>>
ringVars == <<token>>
pingVars == <<buf>>
deadVars == <<send_data, recv_data>>
ctrVars == <<shared_counter, local_value, pending, arrived, lockHolder>>
envVars == <<prog, size, cap, MSG_SIZE, finalizeSync, lost, lostTo>>

Ranks == 0 .. (MaxN - 1)
Procs == 0 .. (size - 1)

Zeros(n) == [k \in 1 .. n |-> 0]

\* The state of a run at MPI_Init.  The channel capacity is the MPI
\* library's choice (eager or rendezvous sends); the counter programs send
\* no messages, so one capacity stands for all.  Memory the program has
\* not written yet holds any of JunkValues.  MPI_Finalize is collective:
\* a library may make it wait for every rank, or not.
Init ==
  /\ prog \in Programs
  /\ size \in 1 .. MaxN
  /\ prog = "lock" => size <= MaxLockN
  /\ cap \in 0 .. MaxCap
  /\ prog \in Counters => cap = 0
  /\ MSG_SIZE \in 1 .. MaxMsgSize
  /\ prog # "pingpong" => MSG_SIZE = 1
  /\ finalizeSync \in BOOLEAN
  /\ pc = [r \in Procs |-> "start"]
  /\ exitCode = [r \in Procs |-> Running]
  /\ out = [r \in Procs |-> <<>>]
  /\ chan = [c \in Ranks \X Ranks |-> <<>>]
  /\ token = [r \in Procs |-> 0]
  /\ buf = [r \in Procs |-> <<>>]
  /\ i = [r \in Procs |-> 0]
  /\ send_data = [r \in Procs |-> 42]
  /\ recv_data = [r \in Procs |-> 0]
  /\ shared_counter \in JunkValues
  /\ prog \notin Counters => shared_counter = 0
  /\ local_value = [r \in Procs |-> shared_counter]
  /\ pending = {}
  /\ arrived = [r \in Procs |-> 0]
  /\ lockHolder = {}
  /\ sent = [r \in Procs |-> <<>>]
  /\ rcvd = [r \in Procs |-> <<>>]
  /\ visits = <<>>
  /\ lost = 0
  /\ lostTo = {}

----------------------------------------------------------------------------
(* Blocking point-to-point primitives.                                     *)

\* the rank a receive of rank r names as its source
RingSource(r) == IF r = 0 THEN size - 1 ELSE r - 1
RingDest(r) == (r + 1) % size
PingPongPeer(r) == IF r = 0 THEN 1 ELSE 0
DeadlockPeer(r) == IF r = 0 THEN 1 ELSE 0

RecvSource(r) ==
  CASE prog = "ring" -> RingSource(r)
    [] prog = "pingpong" -> PingPongPeer(r)
    [] prog = "deadlock" -> DeadlockPeer(r)
    [] OTHER -> size

\* rank dst is inside a receive that names src
Posted(dst, src) == dst \in Procs /\ pc[dst] = "recv" /\ RecvSource(dst) = src

\* MPI_Send returns once the message is buffered, or, without a free
\* buffer, once the matching receive is posted
CanSend(src, dst) ==
  Len(chan[<<src, dst>>]) < cap + (IF Posted(dst, src) THEN 1 ELSE 0)

MPI_Send(src, dst, v) ==
  /\ CanSend(src, dst)
  /\ chan' = [chan EXCEPT ![<<src, dst>>] = Append(@, v)]
  /\ sent' = [sent EXCEPT ![src] = Append(@, <<dst, v>>)]
  /\ UNCHANGED <<rcvd, visits>>

CanRecv(dst, src) == chan[<<src, dst>>] # <<>>

\* the caller assigns Head(chan[<<src, dst>>]) to its buffer
MPI_Recv(dst, src) ==
  /\ CanRecv(dst, src)
  /\ chan' = [chan EXCEPT ![<<src, dst>>] = Tail(@)]
  /\ rcvd' = [rcvd EXCEPT ![dst] = Append(@, <<src, Head(chan[<<src, dst>>])>>)]
  /\ visits' = Append(visits, dst)
  /\ UNCHANGED sent

Goto(r, l) == pc' = [pc EXCEPT ![r] = l]
Printf(r, line) == out' = [out EXCEPT ![r] = Append(@, line)]
Return(r, code) == exitCode' = [exitCode EXCEPT ![r] = <<code>>]

\* rank r has called MPI_Finalize ("abort": on the path that returns 1)
InFinalize(r) == pc[r] \in {"finalize", "abort", "done"}

\* MPI_Finalize returns at once, or, in a library where it synchronises,
\* once every rank has called it
FinalizeDone(r) == finalizeSync => \A q \in Procs : InFinalize(q)

----------------------------------------------------------------------------
(* mpi/mpi_ring.c                                                          *)

\* token += 1
ForwardBug(t) == t

Forward(t) == t + 1

\* the statement after MPI_Send: rank 0 goes on to its receive
AfterSendBug(r) == "print"

AfterSend(r) == IF r = 0 THEN "recv" ELSE "print"

\* rank 0 sending its token without setting it
RingOriginateNoToken(r) ==
  /\ prog = "ring" /\ pc[r] = "start" /\ r = 0
  /\ Goto(r, "send")
  /\ UNCHANGED <<envVars, p2pVars, ringVars, pingVars, deadVars, ctrVars,
                 exitCode, out, i>>

RingOriginate(r) ==
  /\ prog = "ring" /\ pc[r] = "start" /\ r = 0
  /\ token' = [token EXCEPT ![r] = InitialToken]
  /\ Goto(r, "send")
  /\ UNCHANGED <<envVars, p2pVars, pingVars, deadVars, ctrVars, exitCode, out, i>>

\* a rank that forwards before it has received
RingAwaitSendsFirst(r) ==
  /\ prog = "ring" /\ pc[r] = "start" /\ r # 0
  /\ Goto(r, "inc")
  /\ UNCHANGED <<envVars, p2pVars, ringVars, pingVars, deadVars, ctrVars,
                 exitCode, out, i>>

RingAwait(r) ==
  /\ prog = "ring" /\ pc[r] = "start" /\ r # 0
  /\ Goto(r, "recv")
  /\ UNCHANGED <<envVars, p2pVars, ringVars, pingVars, deadVars, ctrVars,
                 exitCode, out, i>>

RingSend(r) ==
  /\ prog = "ring" /\ pc[r] = "send"
  /\ MPI_Send(r, RingDest(r), token[r])
  /\ Goto(r, AfterSend(r))
  /\ UNCHANGED <<envVars, ringVars, pingVars, deadVars, ctrVars, exitCode, out, i>>

\* a receive that returns without a message
RingRecvNoWait(r) ==
  /\ prog = "ring" /\ pc[r] = "recv"
  /\ IF CanRecv(r, RingSource(r))
       THEN /\ MPI_Recv(r, RingSource(r))
            /\ token' = [token EXCEPT ![r] = Head(chan[<<RingSource(r), r>>])]
       ELSE UNCHANGED <<p2pVars, token>>
  /\ Goto(r, IF r = 0 THEN "print" ELSE "inc")
  /\ UNCHANGED <<envVars, pingVars, deadVars, ctrVars, exitCode, out, i>>

RingRecv(r) ==
  /\ prog = "ring" /\ pc[r] = "recv"
  /\ MPI_Recv(r, RingSource(r))
  /\ token' = [token EXCEPT ![r] = Head(chan[<<RingSource(r), r>>])]
  /\ Goto(r, IF r = 0 THEN "print" ELSE "inc")
  /\ UNCHANGED <<envVars, pingVars, deadVars, ctrVars, exitCode, out, i>>

RingIncrement(r) ==
  /\ prog = "ring" /\ pc[r] = "inc"
  /\ token' = [token EXCEPT ![r] = Forward(token[r])]
  /\ Goto(r, "send")
  /\ UNCHANGED <<envVars, p2pVars, pingVars, deadVars, ctrVars, exitCode, out, i>>

RingPrint(r) ==
  /\ prog = "ring" /\ pc[r] = "print"
  /\ Printf(r, <<IF r = 0 THEN "received final token" ELSE "forwarded token",
                token[r]>>)
  /\ Goto(r, "finalize")
  /\ UNCHANGED <<envVars, p2pVars, ringVars, pingVars, deadVars, ctrVars,
                 exitCode, i>>

RingFinalize(r) ==
  /\ prog = "ring" /\ pc[r] = "finalize"
  /\ FinalizeDone(r)
  /\ Goto(r, "done")
  /\ Return(r, 0)
  /\ UNCHANGED <<envVars, p2pVars, ringVars, pingVars, deadVars, ctrVars, out, i>>

RingStep(r) ==
  \/ RingOriginate(r)
  \/ RingAwait(r)
  \/ RingSend(r)
  \/ RingRecv(r)
  \/ RingIncrement(r)
  \/ RingPrint(r)
  \/ RingFinalize(r)

----------------------------------------------------------------------------
(* mpi/mpi_pingpong.c                                                      *)

\* what rank r does first in an iteration of the loop
PingPongRoleBothSend(r) ==
  IF r = 0 THEN "send" ELSE IF r = 1 THEN "send" ELSE "none"

PingPongRole(r) ==
  IF r = 0 THEN "send" ELSE IF r = 1 THEN "recv" ELSE "none"

\* if (size < 2)
PingPongTooFewBug(n) == n < 1

PingPongTooFew(n) == n < 2

\* the bytes rank 1 sends back: the buffer it received into
EchoBug(b) == [k \in DOMAIN b |-> 1]

Echo(b) == b

PingPongGuardFail(r) ==
  /\ prog = "pingpong" /\ pc[r] = "start"
  /\ PingPongTooFew(size)
  /\ out' = [out EXCEPT ![r] = IF r = 0 THEN Append(@, <<"Need at least 2 ranks.">>)
                                        ELSE @]
  /\ Goto(r, "abort")
  /\ UNCHANGED <<envVars, p2pVars, ringVars, pingVars, deadVars, ctrVars,
                 exitCode, i>>

\* MPI_Finalize(); return 1;
PingPongAbort(r) ==
  /\ prog = "pingpong" /\ pc[r] = "abort"
  /\ FinalizeDone(r)
  /\ Goto(r, "done")
  /\ Return(r, 1)
  /\ UNCHANGED <<envVars, p2pVars, ringVars, pingVars, deadVars, ctrVars, out, i>>

PingPongSetup(r) ==
  /\ prog = "pingpong" /\ pc[r] = "start"
  /\ ~PingPongTooFew(size)
  /\ buf' = [buf EXCEPT ![r] = Zeros(MSG_SIZE)]
  /\ i' = [i EXCEPT ![r] = 0]
  /\ Goto(r, "loop")
  /\ UNCHANGED <<envVars, p2pVars, ringVars, deadVars, ctrVars, exitCode, out>>

\* the loop with "else if (rank == 1)" written as "else"
PingPongLoopElse(r) ==
  /\ prog = "pingpong" /\ pc[r] = "loop"
  /\ IF i[r] < iters
       THEN Goto(r, IF r = 0 THEN "send" ELSE "recv") /\ UNCHANGED i
       ELSE Goto(r, "report") /\ UNCHANGED i
  /\ UNCHANGED <<envVars, p2pVars, ringVars, pingVars, deadVars, ctrVars,
                 exitCode, out>>

PingPongLoop(r) ==
  /\ prog = "pingpong" /\ pc[r] = "loop"
  /\ IF i[r] < iters
       THEN IF PingPongRole(r) = "none"
              THEN i' = [i EXCEPT ![r] = @ + 1] /\ UNCHANGED pc
              ELSE Goto(r, PingPongRole(r)) /\ UNCHANGED i
       ELSE Goto(r, "report") /\ UNCHANGED i
  /\ UNCHANGED <<envVars, p2pVars, ringVars, pingVars, deadVars, ctrVars,
                 exitCode, out>>

PingPongSend(r) ==
  /\ prog = "pingpong" /\ pc[r] = "send"
  /\ MPI_Send(r, PingPongPeer(r), IF r = 0 THEN buf[r] ELSE Echo(buf[r]))
  /\ IF PingPongRole(r) = "send"
       THEN Goto(r, "recv") /\ UNCHANGED i
       ELSE Goto(r, "loop") /\ i' = [i EXCEPT ![r] = @ + 1]
  /\ UNCHANGED <<envVars, ringVars, pingVars, deadVars, ctrVars, exitCode, out>>

PingPongRecv(r) ==
  /\ prog = "pingpong" /\ pc[r] = "recv"
  /\ MPI_Recv(r, PingPongPeer(r))
  /\ buf' = [buf EXCEPT ![r] = Head(chan[<<PingPongPeer(r), r>>])]
  /\ IF PingPongRole(r) = "recv"
       THEN Goto(r, "send") /\ UNCHANGED i
       ELSE Goto(r, "loop") /\ i' = [i EXCEPT ![r] = @ + 1]
  /\ UNCHANGED <<envVars, ringVars, deadVars, ctrVars, exitCode, out>>

\* the report, then free(buf) and the call of MPI_Finalize
PingPongReport(r) ==
  /\ prog = "pingpong" /\ pc[r] = "report"
  /\ out' = [out EXCEPT ![r] = IF r = 0 THEN Append(@, <<"PingPong", MSG_SIZE>>)
                                        ELSE @]
  /\ buf' = [buf EXCEPT ![r] = <<>>]
  /\ Goto(r, "finalize")
  /\ UNCHANGED <<envVars, p2pVars, ringVars, deadVars, ctrVars, exitCode, i>>

PingPongFinalize(r) ==
  /\ prog = "pingpong" /\ pc[r] = "finalize"
  /\ FinalizeDone(r)
  /\ Goto(r, "done")
  /\ Return(r, 0)
  /\ UNCHANGED <<envVars, p2pVars, ringVars, pingVars, deadVars, ctrVars, out, i>>

PingPongStep(r) ==
  \/ PingPongGuardFail(r)
  \/ PingPongAbort(r)
  \/ PingPongSetup(r)
  \/ PingPongLoop(r)
  \/ PingPongSend(r)
  \/ PingPongRecv(r)
  \/ PingPongReport(r)
  \/ PingPongFinalize(r)

----------------------------------------------------------------------------
(* mpi_debugging/mpi_deadlock.c                                            *)

\* what rank r calls first: both ranks send
DeadlockFirstAlternating(r) == IF r = 0 THEN "send" ELSE "recv"

DeadlockFirst(r) == IF r = 0 THEN "send" ELSE IF r = 1 THEN "send" ELSE "final"

\* a rank that finalizes right after its first call
DeadlockAfterFirstOnly(r, l) == "final"

\* the statement after a rank's MPI_Send / MPI_Recv
DeadlockAfter(r, l) ==
  IF l = DeadlockFirst(r) THEN (IF l = "send" THEN "recv" ELSE "send")
                          ELSE "final"

\* if (size != 2)
DeadlockWrongSizeBug(n) == n < 2

DeadlockWrongSize(n) == n # 2

DeadlockGuardFail(r) ==
  /\ prog = "deadlock" /\ pc[r] = "start"
  /\ DeadlockWrongSize(size)
  /\ out' = [out EXCEPT ![r] =
               IF r = 0 THEN Append(@, <<"This program requires exactly 2 MPI processes">>)
                        ELSE @]
  /\ Goto(r, "abort")
  /\ UNCHANGED <<envVars, p2pVars, ringVars, pingVars, deadVars, ctrVars,
                 exitCode, i>>

\* MPI_Finalize(); return 1;
DeadlockAbort(r) ==
  /\ prog = "deadlock" /\ pc[r] = "abort"
  /\ FinalizeDone(r)
  /\ Goto(r, "done")
  /\ Return(r, 1)
  /\ UNCHANGED <<envVars, p2pVars, ringVars, pingVars, deadVars, ctrVars, out, i>>

DeadlockAttempt(r) ==
  /\ prog = "deadlock" /\ pc[r] = "start"
  /\ ~DeadlockWrongSize(size)
  /\ Printf(r, <<"Attempting to send", DeadlockPeer(r)>>)
  /\ Goto(r, DeadlockFirst(r))
  /\ UNCHANGED <<envVars, p2pVars, ringVars, pingVars, deadVars, ctrVars,
                 exitCode, i>>

DeadlockSend(r) ==
  /\ prog = "deadlock" /\ pc[r] = "send"
  /\ MPI_Send(r, DeadlockPeer(r), send_data[r])
  /\ Printf(r, <<"Send completed, now receiving">>)
  /\ Goto(r, DeadlockAfter(r, "send"))
  /\ UNCHANGED <<envVars, ringVars, pingVars, deadVars, ctrVars, exitCode, i>>

DeadlockRecv(r) ==
  /\ prog = "deadlock" /\ pc[r] = "recv"
  /\ MPI_Recv(r, DeadlockPeer(r))
  /\ recv_data' = [recv_data EXCEPT ![r] = Head(chan[<<DeadlockPeer(r), r>>])]
  /\ Printf(r, <<"Received", Head(chan[<<DeadlockPeer(r), r>>])>>)
  /\ Goto(r, DeadlockAfter(r, "recv"))
  /\ UNCHANGED <<envVars, ringVars, pingVars, send_data, ctrVars, exitCode, i>>

\* the last printf, then the call of MPI_Finalize
DeadlockFinal(r) ==
  /\ prog = "deadlock" /\ pc[r] = "final"
  /\ Printf(r, <<"Finalizing">>)
  /\ Goto(r, "finalize")
  /\ UNCHANGED <<envVars, p2pVars, ringVars, pingVars, deadVars, ctrVars,
                 exitCode, i>>

DeadlockFinalize(r) ==
  /\ prog = "deadlock" /\ pc[r] = "finalize"
  /\ FinalizeDone(r)
  /\ Goto(r, "done")
  /\ Return(r, 0)
  /\ UNCHANGED <<envVars, p2pVars, ringVars, pingVars, deadVars, ctrVars, out, i>>

DeadlockStep(r) ==
  \/ DeadlockGuardFail(r)
  \/ DeadlockAbort(r)
  \/ DeadlockAttempt(r)
  \/ DeadlockSend(r)
  \/ DeadlockRecv(r)
  \/ DeadlockFinal(r)
  \/ DeadlockFinalize(r)

----------------------------------------------------------------------------
(* mpi_debugging/mpi_race_condition.c: the parts common to the loop as     *)
(* written ("race") and to the two fixes of the closing comment.           *)

\* a collective returns at rank r once every rank has called it
AllArrived(r) == \A q \in Procs : arrived[q] >= arrived[r]

\* MPI_Win_fence returns at rank r once every rank has called it, the
\* operations r issued are complete, and, at the target (rank 0), the
\* operations aimed at its window are complete
FenceDone(r) ==
  /\ AllArrived(r)
  /\ \A o \in pending : o.origin # r
  /\ r = 0 => pending = {}

\* rank r calls the next collective
Arrive(r) == arrived' = [arrived EXCEPT ![r] = @ + 1]

Expected == NUM_INCREMENTS * size

\* the label of the first statement of the loop body
LoopBody == CASE prog = "race" -> "fence1"
              [] prog = "acc" -> "fence1"
              [] prog = "lock" -> "lock"
              [] OTHER -> "none"

InitCounter == 0

\* rank 0 leaving the allocated counter as MPI_Alloc_mem returned it
CounterAllocNoInit(r) ==
  /\ prog \in Counters /\ pc[r] = "start"
  /\ Goto(r, "wincreate")
  /\ Arrive(r)
  /\ UNCHANGED <<envVars, p2pVars, ringVars, pingVars, deadVars, shared_counter,
                 local_value, pending, lockHolder, exitCode, out, i>>

CounterAlloc(r) ==
  /\ prog \in Counters /\ pc[r] = "start"
  /\ shared_counter' = IF r = 0 THEN InitCounter ELSE shared_counter
  /\ Goto(r, "wincreate")
  /\ Arrive(r)
  /\ UNCHANGED <<envVars, p2pVars, ringVars, pingVars, deadVars, local_value,
                 pending, lockHolder, exitCode, out, i>>

CounterWinCreate(r) ==
  /\ prog \in Counters /\ pc[r] = "wincreate"
  /\ AllArrived(r)
  /\ Goto(r, "barrier1")
  /\ Arrive(r)
  /\ UNCHANGED <<envVars, p2pVars, ringVars, pingVars, deadVars, shared_counter,
                 local_value, pending, lockHolder, exitCode, out, i>>

CounterBarrier1(r) ==
  /\ prog \in Counters /\ pc[r] = "barrier1"
  /\ AllArrived(r)
  /\ Printf(r, <<"Starting race condition test">>)
  /\ i' = [i EXCEPT ![r] = 0]
  /\ Goto(r, "loop")
  /\ UNCHANGED <<envVars, p2pVars, ringVars, pingVars, deadVars, ctrVars, exitCode>>

\* the loop test; a rank that enters a collective calls it here
CounterLoop(r) ==
  /\ prog \in Counters /\ pc[r] = "loop"
  /\ IF i[r] < NUM_INCREMENTS
       THEN /\ Goto(r, LoopBody)
            /\ IF LoopBody = "fence1" THEN Arrive(r) ELSE UNCHANGED arrived
       ELSE /\ Goto(r, "barrier2")
            /\ Arrive(r)
  /\ UNCHANGED <<envVars, p2pVars, ringVars, pingVars, deadVars, shared_counter,
                 local_value, pending, lockHolder, exitCode, out, i>>

\* the loop followed by the final check without the barrier
CounterBarrier2Missing(r) ==
  /\ prog \in Counters /\ pc[r] = "barrier2"
  /\ Goto(r, IF r = 0 THEN "check" ELSE "winfree")
  /\ IF r = 0 THEN UNCHANGED arrived ELSE Arrive(r)
  /\ UNCHANGED <<envVars, p2pVars, ringVars, pingVars, deadVars, shared_counter,
                 local_value, pending, lockHolder, exitCode, out, i>>

CounterBarrier2(r) ==
  /\ prog \in Counters /\ pc[r] = "barrier2"
  /\ AllArrived(r)
  /\ Goto(r, IF r = 0 THEN "check" ELSE "winfree")
  /\ IF r = 0 THEN UNCHANGED arrived ELSE Arrive(r)
  /\ UNCHANGED <<envVars, p2pVars, ringVars, pingVars, deadVars, shared_counter,
                 local_value, pending, lockHolder, exitCode, out, i>>

\* a check that exits with a failure code when updates were lost
CounterCheckFails(r) ==
  /\ prog \in Counters /\ pc[r] = "check"
  /\ Printf(r, <<"Final counter value", shared_counter, Expected>>)
  /\ IF shared_counter # Expected
       THEN Goto(r, "done") /\ Return(r, 1) /\ UNCHANGED arrived
       ELSE Goto(r, "winfree") /\ Arrive(r) /\ UNCHANGED exitCode
  /\ UNCHANGED <<envVars, p2pVars, ringVars, pingVars, deadVars, shared_counter,
                 local_value, pending, lockHolder, i>>

CounterCheck(r) ==
  /\ prog \in Counters /\ pc[r] = "check"
  /\ out' = [out EXCEPT ![r] =
               @ \o << <<"Final counter value", shared_counter, Expected>>,
                       IF shared_counter # Expected
                         THEN <<"RACE CONDITION DETECTED! Lost updates",
                                Expected - shared_counter>>
                         ELSE <<"No race detected in this run">> >>]
  /\ Goto(r, "winfree")
  /\ Arrive(r)
  /\ UNCHANGED <<envVars, p2pVars, ringVars, pingVars, deadVars, shared_counter,
                 local_value, pending, lockHolder, exitCode, i>>

\* MPI_Win_free, MPI_Free_mem, then the call of MPI_Finalize
CounterWinFree(r) ==
  /\ prog \in Counters /\ pc[r] = "winfree"
  /\ AllArrived(r)
  /\ Goto(r, "finalize")
  /\ UNCHANGED <<envVars, p2pVars, ringVars, pingVars, deadVars, ctrVars,
                 exitCode, out, i>>

CounterFinalize(r) ==
  /\ prog \in Counters /\ pc[r] = "finalize"
  /\ FinalizeDone(r)
  /\ Goto(r, "done")
  /\ Return(r, 0)
  /\ UNCHANGED <<envVars, p2pVars, ringVars, pingVars, deadVars, ctrVars, out, i>>

----------------------------------------------------------------------------
(* One-sided operations: issued by a rank, applied to rank 0's window by   *)
(* the MPI runtime at some moment before the epoch closes.                 *)

Op(kind, r, v) == [op |-> kind, origin |-> r, val |-> v]

\* MPI_SUM of the origin's value into the target
AccumulateReplace(c, v) == v

Accumulate(c, v) == c + v

ApplyGet(o) ==
  /\ o.op = "get"
  /\ local_value' = [local_value EXCEPT ![o.origin] = shared_counter]
  /\ pending' = pending \ {o}
  /\ UNCHANGED <<envVars, p2pVars, ringVars, pingVars, deadVars, shared_counter,
                 arrived, lockHolder, pc, exitCode, out, i>>

ApplyPut(o) ==
  /\ o.op = "put"
  /\ shared_counter' = o.val
  /\ pending' = pending \ {o}
  /\ UNCHANGED <<envVars, p2pVars, ringVars, pingVars, deadVars, local_value,
                 arrived, lockHolder, pc, exitCode, out, i>>

ApplyAccumulate(o) ==
  /\ o.op = "acc"
  /\ shared_counter' = Accumulate(shared_counter, o.val)
  /\ pending' = pending \ {o}
  /\ UNCHANGED <<envVars, p2pVars, ringVars, pingVars, deadVars, local_value,
                 arrived, lockHolder, pc, exitCode, out, i>>

Runtime == \E o \in pending : ApplyGet(o) \/ ApplyPut(o) \/ ApplyAccumulate(o)

----------------------------------------------------------------------------
(* The loop of mpi_race_condition.c as written: fence, get, fence,         *)
(* increment, fence, put, fence.                                           *)

RaceFence1(r) ==
  /\ prog = "race" /\ pc[r] = "fence1"
  /\ FenceDone(r)
  /\ Goto(r, "get")
  /\ UNCHANGED <<envVars, p2pVars, ringVars, pingVars, deadVars, ctrVars,
                 exitCode, out, i>>

\* the get without the fence that closes its epoch
RaceGetNoFence(r) ==
  /\ prog = "race" /\ pc[r] = "get"
  /\ pending' = pending \cup {Op("get", r, 0)}
  /\ Goto(r, "inc")
  /\ UNCHANGED <<envVars, p2pVars, ringVars, pingVars, deadVars, shared_counter,
                 local_value, arrived, lockHolder, exitCode, out, i>>

RaceGet(r) ==
  /\ prog = "race" /\ pc[r] = "get"
  /\ pending' = pending \cup {Op("get", r, 0)}
  /\ Goto(r, "fence2")
  /\ Arrive(r)
  /\ UNCHANGED <<envVars, p2pVars, ringVars, pingVars, deadVars, shared_counter,
                 local_value, lockHolder, exitCode, out, i>>

RaceFence2(r) ==
  /\ prog = "race" /\ pc[r] = "fence2"
  /\ FenceDone(r)
  /\ Goto(r, "inc")
  /\ UNCHANGED <<envVars, p2pVars, ringVars, pingVars, deadVars, ctrVars,
                 exitCode, out, i>>

\* local_value++
IncrementBug(v) == v + 2

Increment(v) == v + 1

RaceIncrement(r) ==
  /\ prog = "race" /\ pc[r] = "inc"
  /\ local_value' = [local_value EXCEPT ![r] = Increment(@)]
  /\ Goto(r, "fence3")
  /\ Arrive(r)
  /\ UNCHANGED <<envVars, p2pVars, ringVars, pingVars, deadVars, shared_counter,
                 pending, lockHolder, exitCode, out, i>>

RaceFence3(r) ==
  /\ prog = "race" /\ pc[r] = "fence3"
  /\ FenceDone(r)
  /\ Goto(r, "put")
  /\ UNCHANGED <<envVars, p2pVars, ringVars, pingVars, deadVars, ctrVars,
                 exitCode, out, i>>

\* the write-back done as an atomic accumulate of +1
RacePutAsAccumulate(r) ==
  /\ prog = "race" /\ pc[r] = "put"
  /\ pending' = pending \cup {Op("acc", r, 1)}
  /\ Goto(r, "fence4")
  /\ Arrive(r)
  /\ UNCHANGED <<envVars, p2pVars, ringVars, pingVars, deadVars, shared_counter,
                 local_value, lockHolder, exitCode, out, i>>

RacePut(r) ==
  /\ prog = "race" /\ pc[r] = "put"
  /\ pending' = pending \cup {Op("put", r, local_value[r])}
  /\ Goto(r, "fence4")
  /\ Arrive(r)
  /\ UNCHANGED <<envVars, p2pVars, ringVars, pingVars, deadVars, shared_counter,
                 local_value, lockHolder, exitCode, out, i>>

RaceFence4(r) ==
  /\ prog = "race" /\ pc[r] = "fence4"
  /\ FenceDone(r)
  /\ out' = [out EXCEPT ![r] =
               IF i[r] % 100 = 0 /\ r = 0
                 THEN Append(@, <<"counter should be", i[r], (i[r] + 1) * size>>)
                 ELSE @]
  /\ i' = [i EXCEPT ![r] = @ + 1]
  /\ Goto(r, "loop")
  /\ UNCHANGED <<envVars, p2pVars, ringVars, pingVars, deadVars, ctrVars, exitCode>>

RaceStep(r) ==
  \/ RaceFence1(r)
  \/ RaceGet(r)
  \/ RaceFence2(r)
  \/ RaceIncrement(r)
  \/ RaceFence3(r)
  \/ RacePut(r)
  \/ RaceFence4(r)

----------------------------------------------------------------------------
(* Fix, option 1 of the closing comment: fence, accumulate +1, fence.      *)

AccFence1(r) ==
  /\ prog = "acc" /\ pc[r] = "fence1"
  /\ FenceDone(r)
  /\ Goto(r, "accumulate")
  /\ UNCHANGED <<envVars, p2pVars, ringVars, pingVars, deadVars, ctrVars,
                 exitCode, out, i>>

AccAccumulate(r) ==
  /\ prog = "acc" /\ pc[r] = "accumulate"
  /\ pending' = pending \cup {Op("acc", r, 1)}
  /\ Goto(r, "fence2")
  /\ Arrive(r)
  /\ UNCHANGED <<envVars, p2pVars, ringVars, pingVars, deadVars, shared_counter,
                 local_value, lockHolder, exitCode, out, i>>

AccFence2(r) ==
  /\ prog = "acc" /\ pc[r] = "fence2"
  /\ FenceDone(r)
  /\ i' = [i EXCEPT ![r] = @ + 1]
  /\ Goto(r, "loop")
  /\ UNCHANGED <<envVars, p2pVars, ringVars, pingVars, deadVars, ctrVars,
                 exitCode, out>>

AccStep(r) ==
  \/ AccFence1(r)
  \/ AccAccumulate(r)
  \/ AccFence2(r)

----------------------------------------------------------------------------
(* Fix, option 2 of the closing comment: exclusive lock, read-modify-      *)
(* write, unlock.                                                          *)

\* MPI_Win_lock(MPI_LOCK_EXCLUSIVE) is granted to one rank at a time
LockFree(r) == lockHolder = {}

LockAcquire(r) ==
  /\ prog = "lock" /\ pc[r] = "lock"
  /\ LockFree(r)
  /\ lockHolder' = {r}
  /\ Goto(r, "rmw")
  /\ UNCHANGED <<envVars, p2pVars, ringVars, pingVars, deadVars, shared_counter,
                 local_value, pending, arrived, exitCode, out, i>>

\* "Read-modify-write operations here": get, increment and put of the
\* epoch the lock opens; the put is complete when MPI_Win_unlock returns
LockReadModifyWrite(r) ==
  /\ prog = "lock" /\ pc[r] = "rmw"
  /\ local_value' = [local_value EXCEPT ![r] = Increment(shared_counter)]
  /\ pending' = pending \cup {Op("put", r, Increment(shared_counter))}
  /\ Goto(r, "unlock")
  /\ UNCHANGED <<envVars, p2pVars, ringVars, pingVars, deadVars, shared_counter,
                 arrived, lockHolder, exitCode, out, i>>

\* MPI_Win_unlock returns once the operations of the epoch are complete
LockRelease(r) ==
  /\ prog = "lock" /\ pc[r] = "unlock"
  /\ \A o \in pending : o.origin # r
  /\ lockHolder' = lockHolder \ {r}
  /\ i' = [i EXCEPT ![r] = @ + 1]
  /\ Goto(r, "loop")
  /\ UNCHANGED <<envVars, p2pVars, ringVars, pingVars, deadVars, shared_counter,
                 local_value, pending, arrived, exitCode, out>>

LockStep(r) ==
  \/ LockAcquire(r)
  \/ LockReadModifyWrite(r)
  \/ LockRelease(r)

CounterStep(r) ==
  \/ CounterAlloc(r)
  \/ CounterWinCreate(r)
  \/ CounterBarrier1(r)
  \/ CounterLoop(r)
  \/ CounterBarrier2(r)
  \/ CounterCheck(r)
  \/ CounterWinFree(r)
  \/ CounterFinalize(r)

----------------------------------------------------------------------------
(* A channel that loses messages (not MPI's; the failure the ring's        *)
(* description considers).                                                 *)

Drop(src, dst) ==
  /\ lost < MaxLost
  /\ chan[<<src, dst>>] # <<>>
  /\ chan' = [chan EXCEPT ![<<src, dst>>] = Tail(@)]
  /\ lost' = lost + 1
  /\ lostTo' = lostTo \cup {dst}
  /\ UNCHANGED <<prog, size, cap, MSG_SIZE, finalizeSync, sent, rcvd, visits, ringVars,
                 pingVars, deadVars, ctrVars, pc, exitCode, out, i>>

----------------------------------------------------------------------------
Step(r) ==
  \/ RingStep(r)
  \/ PingPongStep(r)
  \/ DeadlockStep(r)
  \/ CounterStep(r)
  \/ RaceStep(r)
  \/ AccStep(r)
  \/ LockStep(r)

Proc(r) == r \in Procs /\ Step(r)

\* one disjunct per statement of the programs and per runtime step; the
\* same steps as \E r \in Ranks : Proc(r), or Runtime
Next ==
  \/ \E r \in Procs : RingOriginate(r)
  \/ \E r \in Procs : RingAwait(r)
  \/ \E r \in Procs : RingSend(r)
  \/ \E r \in Procs : RingRecv(r)
  \/ \E r \in Procs : RingIncrement(r)
  \/ \E r \in Procs : RingPrint(r)
  \/ \E r \in Procs : RingFinalize(r)
  \/ \E r \in Procs : PingPongGuardFail(r)
  \/ \E r \in Procs : PingPongAbort(r)
  \/ \E r \in Procs : PingPongSetup(r)
  \/ \E r \in Procs : PingPongLoop(r)
  \/ \E r \in Procs : PingPongSend(r)
  \/ \E r \in Procs : PingPongRecv(r)
  \/ \E r \in Procs : PingPongReport(r)
  \/ \E r \in Procs : PingPongFinalize(r)
  \/ \E r \in Procs : DeadlockGuardFail(r)
  \/ \E r \in Procs : DeadlockAbort(r)
  \/ \E r \in Procs : DeadlockAttempt(r)
  \/ \E r \in Procs : DeadlockSend(r)
  \/ \E r \in Procs : DeadlockRecv(r)
  \/ \E r \in Procs : DeadlockFinal(r)
  \/ \E r \in Procs : DeadlockFinalize(r)
  \/ \E r \in Procs : CounterAlloc(r)
  \/ \E r \in Procs : CounterWinCreate(r)
  \/ \E r \in Procs : CounterBarrier1(r)
  \/ \E r \in Procs : CounterLoop(r)
  \/ \E r \in Procs : CounterBarrier2(r)
  \/ \E r \in Procs : CounterCheck(r)
  \/ \E r \in Procs : CounterWinFree(r)
  \/ \E r \in Procs : CounterFinalize(r)
  \/ \E r \in Procs : RaceFence1(r)
  \/ \E r \in Procs : RaceGet(r)
  \/ \E r \in Procs : RaceFence2(r)
  \/ \E r \in Procs : RaceIncrement(r)
  \/ \E r \in Procs : RaceFence3(r)
  \/ \E r \in Procs : RacePut(r)
  \/ \E r \in Procs : RaceFence4(r)
  \/ \E r \in Procs : AccFence1(r)
  \/ \E r \in Procs : AccAccumulate(r)
  \/ \E r \in Procs : AccFence2(r)
  \/ \E r \in Procs : LockAcquire(r)
  \/ \E r \in Procs : LockReadModifyWrite(r)
  \/ \E r \in Procs : LockRelease(r)
  \/ \E o \in pending : ApplyGet(o)
  \/ \E o \in pending : ApplyPut(o)
  \/ \E o \in pending : ApplyAccumulate(o)

Spec == Init /\ [][Next]_vars

\* the same programs over the channel that may lose messages
NextLossy ==
  \/ Next
  \/ \E s \in Ranks, d \in Ranks : Drop(s, d)

SpecLossy == Init /\ [][NextLossy]_vars

\* every rank is a process of its own and the MPI runtime makes progress
Fairness ==
  /\ \A r \in Ranks : WF_vars(Proc(r))
  /\ WF_vars(Runtime)

FairSpec == Spec /\ Fairness
----------------------------------------------------------------------------
(* Properties.                                                             *)

\* rank 0 of the ring is past its receive
RingTerminal == pc[0] \in {"print", "finalize", "done"}

AllDone == \A r \in Procs : pc[r] = "done"

\* the "Final counter value: %d (expected: %d)" lines rank 0 has printed
IsFinalLine(l) == l[1] = "Final counter value"
FinalReport == SelectSeq(out[0], IsFinalLine)

\* C1: ring, N >= 2, reliable channel: the token rank 0 finally receives
\* (and prints) is 42 + (N - 1), and every rank 1..N-1 sends the value it
\* received plus 1.
C1_RingToken ==
  (prog = "ring" /\ size >= 2) =>
    /\ RingTerminal =>
         /\ token[0] = InitialToken + (size - 1)
         /\ rcvd[0] = << <<size - 1, InitialToken + (size - 1)>> >>
    /\ pc[0] \in {"finalize", "done"} =>
         out[0] = << <<"received final token", InitialToken + (size - 1)>> >>
    /\ \A r \in 1 .. (size - 1) :
         Len(sent[r]) >= 1 =>
           /\ Len(rcvd[r]) >= 1
           /\ sent[r][1][2] = rcvd[r][1][2] + 1

C1_Witness ==
  /\ prog = "ring" /\ size = 3 /\ AllDone
  /\ token[0] = 44 /\ sent[1][1][2] = 43 /\ sent[2][1][2] = 44

\* C2: deadlock program, 2 ranks, channel without buffering: no rank ever
\* gets out of its first send; none reaches its receive or the finalize
\* step, none exits, and once both are inside the send nothing can happen.
C2_DeadlockBlocks ==
  (prog = "deadlock" /\ size = 2 /\ cap = 0) =>
    /\ \A r \in Procs :
         /\ pc[r] \in {"start", "send"}
         /\ exitCode[r] = Running
         /\ sent[r] = <<>> /\ rcvd[r] = <<>>
    /\ (\A r \in Procs : pc[r] = "send") => ~ENABLED Next

C2_Witness ==
  /\ prog = "deadlock" /\ size = 2 /\ cap = 0
  /\ pc[0] = "send" /\ pc[1] = "send"
  /\ ~ENABLED Next

\* C3: counter with the accumulate fix or the exclusive-lock fix: once all
\* N ranks have done their K increments the counter is exactly N*K, and
\* that is the value rank 0 reports.
C3_FixedCounterExact ==
  (prog \in {"acc", "lock"}) =>
    /\ (\A r \in Procs : i[r] = NUM_INCREMENTS) => shared_counter = Expected
    /\ pc[0] \in {"winfree", "finalize", "done"} =>
         FinalReport = << <<"Final counter value", NUM_INCREMENTS * size,
                            NUM_INCREMENTS * size>> >>

C3_Witness ==
  /\ prog = "acc" /\ size = 3 /\ AllDone
  /\ shared_counter = 3 * NUM_INCREMENTS

\* C4: ping-pong with world size 1: rank 0 goes from the guard straight to
\* its exit, prints the diagnostic and returns 1; no send or receive is
\* ever called and no message exists.
C4_PingPongGuard ==
  (prog = "pingpong" /\ size = 1) =>
    /\ pc[0] \in {"start", "abort", "done"}
    /\ sent[0] = <<>> /\ rcvd[0] = <<>>
    /\ \A c \in Ranks \X Ranks : chan[c] = <<>>
    /\ pc[0] = "done" =>
         /\ exitCode[0] = <<1>>
         /\ out[0] = << <<"Need at least 2 ranks.">> >>

C4_Witness ==
  /\ prog = "pingpong" /\ size = 1 /\ pc[0] = "done" /\ exitCode[0] = <<1>>

\* C5: fence-only loop as written: from the moment rank 0 has initialised
\* the counter, the counter never exceeds N*K, and the value rank 0 prints
\* in its final check is at most the expected value.
C5_RaceUpperBound ==
  (prog = "race" /\ pc[0] # "start") =>
    /\ shared_counter <= Expected
    /\ pc[0] \in {"winfree", "finalize", "done"} =>
         /\ Len(FinalReport) = 1
         /\ FinalReport[1][2] <= FinalReport[1][3]
         /\ FinalReport[1][3] = NUM_INCREMENTS * size

C5_Witness ==
  /\ prog = "race" /\ size = 2 /\ pc[0] = "done"
  /\ shared_counter >= 1

\* C6: ping-pong, N >= 2: when rank 0 has completed the loop its buffer
\* equals the buffer it first sent, and every message rank 1 sent is the
\* message it had just received.
C6_PingPongEcho ==
  (prog = "pingpong" /\ size >= 2) =>
    /\ pc[0] = "report" =>
         /\ Len(sent[0]) = iters /\ Len(rcvd[0]) = iters
         /\ buf[0] = sent[0][1][2]
    /\ \A k \in 1 .. Len(sent[1]) : sent[1][k][2] = rcvd[1][k][2]
    /\ \A k \in 1 .. Len(rcvd[0]) : rcvd[0][k][2] = sent[0][1][2]

C6_Witness ==
  /\ prog = "pingpong" /\ size = 2 /\ MSG_SIZE = 2
  /\ pc[0] = "report" /\ buf[0] = <<0, 0>> /\ Len(rcvd[0]) = iters

\* C7: ping-pong, N >= 2, any channel capacity including none: every rank
\* eventually returns 0, ranks 0 and 1 after all their iterations.
C7_PingPongTerminates ==
  <>((prog = "pingpong" /\ size >= 2) =>
       \A r \in Procs : exitCode[r] = <<0>> /\ i[r] = iters)

C7_Witness ==
  /\ prog = "pingpong" /\ size = 2 /\ cap = 0 /\ AllDone
  /\ exitCode[0] = <<0>> /\ exitCode[1] = <<0>>
  /\ Len(sent[0]) = iters /\ Len(sent[1]) = iters

\* C8: ring, N >= 2: receives complete in the order 1, 2, ..., N-1, 0; a
\* rank i > 0 is in its send only after its receive from i-1; rank 0
\* receives from N-1 only, after N-1 has sent; no rank sends or receives
\* more than once and, when all are done, each has done both exactly once.
C8_RingOrder ==
  (prog = "ring" /\ size >= 2) =>
    /\ \A k \in 1 .. Len(visits) : visits[k] = k % size
    /\ \A r \in Procs : Len(sent[r]) <= 1 /\ Len(rcvd[r]) <= 1
    /\ \A r \in Procs : Len(sent[r]) = 1 => sent[r][1][1] = (r + 1) % size
    /\ \A r \in 1 .. (size - 1) :
         (pc[r] = "send" \/ Len(sent[r]) = 1) =>
           Len(rcvd[r]) = 1 /\ rcvd[r][1][1] = r - 1
    /\ Len(rcvd[0]) = 1 =>
         rcvd[0][1][1] = size - 1 /\ Len(sent[size - 1]) = 1
    /\ AllDone => \A r \in Procs : Len(sent[r]) = 1 /\ Len(rcvd[r]) = 1

C8_Witness ==
  /\ prog = "ring" /\ size = 3 /\ AllDone
  /\ visits = <<1, 2, 0>>

\* C9 as stated: ring, N >= 2: rank 0 is in its terminal state when it has
\* received the token a second time.
C9_TerminalAtSecondReceive ==
  (prog = "ring" /\ size >= 2 /\ RingTerminal) => Len(rcvd[0]) = 2

\* C9 amended: ring, N >= 2: rank 0 is in its terminal state exactly when
\* it has received the token once, which is its only receive: the return
\* of the token it originated.
C9_TerminalAtReturn ==
  (prog = "ring" /\ size >= 2) =>
    /\ RingTerminal <=> Len(rcvd[0]) = 1
    /\ Len(rcvd[0]) <= 1
    /\ Len(rcvd[0]) = 1 => Len(sent[0]) = 1

C9_Witness ==
  /\ prog = "ring" /\ size = 2 /\ pc[0] = "print"
  /\ Len(rcvd[0]) = 1 /\ Len(sent[0]) = 1

\* C10: ring, N >= 2, channel that may lose messages: once a token message
\* is lost, its receiver never gets past its receive (it is in it, or about
\* to call it, no message for it is in flight and its source has already
\* done its only send), and rank 0 never reaches its terminal state.
C10_RingHangsOnLoss ==
  (prog = "ring" /\ size >= 2 /\ lost >= 1) =>
    /\ ~RingTerminal
    /\ exitCode[0] = Running
    /\ \A d \in lostTo :
         /\ pc[d] = "recv" \/ (d # 0 /\ pc[d] = "start")
         /\ rcvd[d] = <<>>
         /\ ~CanRecv(d, RingSource(d))
         /\ Len(sent[RingSource(d)]) = 1

C10_Witness ==
  /\ prog = "ring" /\ size = 3 /\ lost = 1 /\ lostTo = {2}
  /\ pc[1] = "done" /\ pc[2] = "recv" /\ pc[0] = "recv"
  /\ \A c \in Ranks \X Ranks : chan[c] = <<>>

\* the labels of the collectives of the counter programs
Collectives == {"wincreate", "barrier1", "fence1", "fence2", "fence3", "fence4",
                "barrier2", "winfree"}

\* rank r has returned from the collective rank q called last
PastCollectiveOf(r, q) ==
  \/ arrived[r] > arrived[q]
  \/ arrived[r] = arrived[q] /\ pc[r] \notin Collectives

PendingGets == {o \in pending : o.op = "get"}
PendingPuts == {o \in pending : o.op = "put"}

Checked == pc[0] \in {"winfree", "finalize", "done"}

IsLostLine(l) == l[1] = "RACE CONDITION DETECTED! Lost updates"
LostReport == SelectSeq(out[0], IsLostLine)

\* C12: fence-only loop, N >= 2: updates are lost.  Ranks that put in the
\* same epoch put the same value, so once all ranks have completed k >= 1
\* iterations the counter is below the N*k increments performed, and the
\* value rank 0 finally reads is below N*K: it reports lost updates.  The
\* witness is the state in which two ranks that both read 0 both have the
\* put of 1 in flight.
C12_UpdatesLost ==
  (prog = "race" /\ size >= 2) =>
    /\ \A o1 \in PendingPuts : \A o2 \in PendingPuts : o1.val = o2.val
    /\ (\A r \in Procs : pc[r] = "loop" /\ i[r] = i[0] /\ i[r] >= 1) =>
         shared_counter < size * i[0]
    /\ Checked =>
         /\ shared_counter < Expected
         /\ Len(LostReport) = 1
         /\ LostReport[1][2] >= 1

C12_Witness ==
  /\ prog = "race" /\ size = 2
  /\ local_value = [r \in Procs |-> 1]
  /\ pending = {Op("put", 0, 1), Op("put", 1, 1)}
  /\ shared_counter = 0

IsNoRaceLine(l) == l[1] = "No race detected in this run"
NoRaceReport == SelectSeq(out[0], IsNoRaceLine)

\* C13: fence-only loop, N >= 2: a run ends with the counter equal to N*K
\* and rank 0 printing "No race detected in this run".  The value the
\* counter ends with does not depend on the schedule (C16), so the claim
\* holds of some run only if it holds of the run at hand.
C13_RunEndsExact ==
  (prog = "race" /\ size >= 2 /\ Checked) =>
    /\ shared_counter = Expected
    /\ Len(NoRaceReport) = 1

\* C14: deadlock program, world size other than 2: every rank goes from
\* the guard to MPI_Finalize and returns 1; no rank calls a send or a
\* receive, and no message exists.  In any run where a rank is in a send,
\* the world size is 2.
C14_DeadlockGuard ==
  prog = "deadlock" =>
    /\ size # 2 =>
         /\ \A r \in Procs :
              /\ pc[r] \in {"start", "abort", "done"}
              /\ sent[r] = <<>> /\ rcvd[r] = <<>>
              /\ pc[r] = "done" => exitCode[r] = <<1>>
              /\ pc[r] # "done" => exitCode[r] = Running
         /\ \A c \in Ranks \X Ranks : chan[c] = <<>>
         /\ pc[0] \in {"abort", "done"} =>
              out[0] = << <<"This program requires exactly 2 MPI processes">> >>
    /\ (\E r \in Procs : pc[r] \in {"send", "recv"} \/ sent[r] # <<>>) => size = 2

C14_Witness ==
  /\ prog = "deadlock" /\ size = 3 /\ AllDone
  /\ \A r \in Procs : exitCode[r] = <<1>> /\ sent[r] = <<>>

\* rank r has called / has returned from the first and the second barrier
ReachedBarrier1(r) == pc[r] \notin {"start", "wincreate"}
PastBarrier1(r) == pc[r] \notin {"start", "wincreate", "barrier1"}
ReachedBarrier2(r) == pc[r] \in {"barrier2", "check", "winfree", "finalize", "done"}
PastBarrier2(r) == pc[r] \in {"check", "winfree", "finalize", "done"}

\* C15: fence-only counter program: a rank is past a barrier only when
\* every rank has called it.  So when a rank is past the first barrier
\* (and so before any get) rank 0 has set the counter and every rank has
\* returned from MPI_Win_create, the first gets read 0, and when rank 0 is
\* at or past its final check every rank has completed K iterations and no
\* put is outstanding.
C15_Barriers ==
  prog = "race" =>
    /\ \A r \in Procs : PastBarrier1(r) => \A q \in Procs : ReachedBarrier1(q)
    /\ \A r \in Procs : PastBarrier2(r) => \A q \in Procs : ReachedBarrier2(q)
    /\ \A r \in Procs :
         PastBarrier1(r) => pc[0] # "start" /\ shared_counter \in 0 .. NUM_INCREMENTS
    /\ \A r \in Procs :
         (i[r] = 0 /\ pc[r] \in {"get", "fence2"}) => shared_counter = 0
    /\ PastBarrier2(0) =>
         /\ \A q \in Procs : i[q] = NUM_INCREMENTS
         /\ pending = {}

C15_Witness ==
  /\ prog = "race" /\ size = 3
  /\ pc = (0 :> "check" @@ 1 :> "barrier2" @@ 2 :> "barrier2")
  /\ shared_counter = NUM_INCREMENTS

Buffered2 == prog = "deadlock" /\ size = 2 /\ cap >= 1

IsFinalizingLine(l) == l[1] = "Finalizing"

Ring1 == prog = "ring" /\ size = 1

\* C18: ring with world size 1 (no size guard): rank 0 sends to itself
\* before it posts its receive.  Without buffering it stays blocked in that
\* send forever, nothing sent, never returning; with buffering it sends 42
\* to itself, receives it unchanged and returns 0 with final token 42.
C18_RingOfOne ==
  /\ [](Ring1 =>
          /\ RingDest(0) = 0 /\ RingSource(0) = 0
          /\ cap = 0 =>
               /\ pc[0] \in {"start", "send"}
               /\ sent[0] = <<>> /\ exitCode[0] = Running
               /\ pc[0] = "send" => ~CanSend(0, 0) /\ ~ENABLED Proc(0)
          /\ cap >= 1 =>
               /\ pc[0] = "send" => CanSend(0, 0)
               /\ pc[0] \in {"recv", "print", "finalize", "done"} =>
                    sent[0] = << <<0, 42>> >>
               /\ RingTerminal => rcvd[0] = << <<0, 42>> >> /\ token[0] = 42)
  /\ <>((Ring1 /\ cap = 0) => pc[0] = "send")
  /\ <>((Ring1 /\ cap >= 1) =>
          /\ pc[0] = "done" /\ exitCode[0] = <<0>> /\ token[0] = 42
          /\ out[0] = << <<"received final token", 42>> >>)

C18_Witness ==
  /\ Ring1 /\ cap >= 1 /\ pc[0] = "done" /\ exitCode[0] = <<0>>
  /\ token[0] = 42 /\ sent[0] = << <<0, 42>> >> /\ rcvd[0] = << <<0, 42>> >>

\* the ranks of the ping-pong that take neither branch of the loop
Idle == {r \in Procs : r >= 2}

PingPong3 == prog = "pingpong" /\ size >= 3

\* C19 as stated: ping-pong, N >= 3: a rank >= 2 runs to its return without
\* ever waiting for ranks 0 and 1, so until it has returned it can always
\* take a step.
C19_IdleNeverWaits ==
  PingPong3 => \A r \in Idle : pc[r] # "done" => ENABLED Proc(r)

\* C19 amended: ping-pong, N >= 3: a rank >= 2 is never in a send or a
\* receive and is never source or destination of a message; it reaches its
\* call of MPI_Finalize whatever ranks 0 and 1 do, waits there at most for
\* the other ranks' calls of MPI_Finalize, and eventually returns 0 having
\* counted all its iterations.
C19_IdleRanks ==
  /\ [](PingPong3 =>
          /\ \A r \in Idle :
               /\ pc[r] \in {"start", "loop", "report", "finalize", "done"}
               /\ sent[r] = <<>> /\ rcvd[r] = <<>>
               /\ \A q \in Procs : chan[<<r, q>>] = <<>> /\ chan[<<q, r>>] = <<>>
               /\ exitCode[r] \in {Running, <<0>>}
               /\ pc[r] \in {"start", "loop", "report"} => ENABLED Proc(r)
               /\ pc[r] = "finalize" => (ENABLED Proc(r) <=> FinalizeDone(r))
          /\ \A q \in Procs :
               /\ \A k \in 1 .. Len(sent[q]) : sent[q][k][1] \in {0, 1}
               /\ \A k \in 1 .. Len(rcvd[q]) : rcvd[q][k][1] \in {0, 1})
  /\ <>(PingPong3 => \A r \in Idle : exitCode[r] = <<0>> /\ i[r] = iters)

C19_Witness ==
  /\ PingPong3 /\ finalizeSync
  /\ pc[2] = "finalize" /\ i[2] = iters /\ exitCode[2] = Running
  /\ pc[0] = "send" /\ pc[1] = "recv" /\ sent[0] = <<>>

\* the number of collectives (window create, barrier, 4 fences per
\* iteration, barrier, window free) a rank of the fence-only counter
\* program has called when it is at label l in iteration k
CollectivesCalled(l, k) ==
  CASE l = "start" -> 0
    [] l = "wincreate" -> 1
    [] l = "barrier1" -> 2
    [] l = "loop" -> 2 + 4 * k
    [] l \in {"fence1", "get"} -> 2 + 4 * k + 1
    [] l \in {"fence2", "inc"} -> 2 + 4 * k + 2
    [] l \in {"fence3", "put"} -> 2 + 4 * k + 3
    [] l = "fence4" -> 2 + 4 * k + 4
    [] l \in {"barrier2", "check"} -> 2 + 4 * NUM_INCREMENTS + 1
    [] OTHER -> 2 + 4 * NUM_INCREMENTS + 2

\* C20: fence-only counter program, any N >= 1: every rank calls the same
\* sequence of collectives, as many as its position in the code says, and
\* no rank is more than one collective ahead of another; until all ranks
\* have returned some step is possible, no rank returns anything but 0, and
\* eventually every rank has returned 0, updates lost (N >= 2) or not.
C20_CounterTerminates ==
  /\ [](prog = "race" =>
          /\ \A r \in Procs :
               /\ arrived[r] = CollectivesCalled(pc[r], i[r])
               /\ \A q \in Procs : arrived[r] <= arrived[q] + 1
               /\ exitCode[r] \in {Running, <<0>>}
               /\ pc[r] = "done" => exitCode[r] = <<0>>
          /\ ~AllDone => ENABLED Next)
  /\ <>(prog = "race" =>
          /\ AllDone
          /\ \A r \in Procs : exitCode[r] = <<0>>
          /\ Len(FinalReport) = 1)

C20_Witness ==
  /\ prog = "race" /\ size = 3 /\ AllDone
  /\ \A r \in Procs : exitCode[r] = <<0>> /\ arrived[r] = 4 * NUM_INCREMENTS + 4
  /\ Len(LostReport) = 1
====
